---- MODULE Spec2Model ----
(***************************************************************************)
(* Model of json_dashboard.py: the JSON-to-table flattener load_json_data, *)
(* its Pass/Fail normalizers, and one render pass of the dashboard script. *)
(*                                                                         *)
(* Text is a sequence of one-character strings, so that lower(), upper(),  *)
(* title(), slicing, concatenation and startswith are computed as Python   *)
(* computes them.  A JSON / Python value is a record [t, b, s, m]: t is    *)
(* the type tag, b the payload of a bool, s the payload of a str or a      *)
(* number, m the payload of a dict (a sequence of [k, v] pairs in          *)
(* insertion order).                                                       *)
(***************************************************************************)
EXTENDS Integers, Sequences, FiniteSets, TLC

VARIABLES
    uploaded_file,    \* TRUE when the sidebar uploader holds a file
    default_exists,   \* os.path.exists(default_path)
    file_data,        \* the parsed JSON of the file that would be read
    pc,               \* position of the script in the render pass
    data,             \* load_json_data: data
    records,          \* load_json_data: records
    i,                \* load_json_data: index of item in data
    record,           \* load_json_data: record being built
    j,                \* load_json_data: index of the entry of eval_results
    full,             \* the table load_json_data returned
    df,               \* the script's df (filtered in place)
    rendered,         \* what the pass has put on the page, in order
    journal_filter,
    alignment_filter,
    record_options,
    choice,           \* position the user picked in the record selector
    selected_idx,
    detail,           \* the detail panel: selected_row and eval_data
    display_columns,  \* the overview table's column headers
    eval_columns,
    success_rates,
    avg_success,
    error,            \* the exception the try block ended with
    value,            \* argument of the normalizers
    nested_out,       \* result of load_json_data.convert_bool_to_pass_fail
    module_out        \* result of the module-level convert_bool_to_pass_fail

load_vars == <<data, records, i, record, j, full>>
view_vars == <<df, rendered, journal_filter, alignment_filter, record_options,
               choice, selected_idx, detail, display_columns, eval_columns,
               success_rates, avg_success, error>>
norm_vars == <<value, nested_out, module_out>>
input_vars == <<uploaded_file, default_exists, file_data>>
vars == <<input_vars, pc, load_vars, view_vars, norm_vars>>

----------------------------------------------------------------------------
(* Bounds of the model.                                                    *)

MaxRecords == 2      \* most records in an input file
MaxEntries == 2      \* most entries of evaluation_results in the shaping inputs
MaxExtra == 1        \* most characters appended to a recognised word

----------------------------------------------------------------------------
(* Python str operations.                                                  *)

LowerLetters ==
    <<"a","b","c","d","e","f","g","h","i","j","k","l","m",
      "n","o","p","q","r","s","t","u","v","w","x","y","z">>
UpperLetters ==
    <<"A","B","C","D","E","F","G","H","I","J","K","L","M",
      "N","O","P","Q","R","S","T","U","V","W","X","Y","Z">>

IsLower(c) == \E n \in 1..Len(LowerLetters) : LowerLetters[n] = c
IsUpper(c) == \E n \in 1..Len(UpperLetters) : UpperLetters[n] = c
IsCased(c) == IsLower(c) \/ IsUpper(c)

ch_lower(c) ==
    IF IsUpper(c)
    THEN LowerLetters[CHOOSE n \in 1..Len(UpperLetters) : UpperLetters[n] = c]
    ELSE c

ch_upper(c) ==
    IF IsLower(c)
    THEN UpperLetters[CHOOSE n \in 1..Len(LowerLetters) : LowerLetters[n] = c]
    ELSE c

str_lower(s) == [n \in 1..Len(s) |-> ch_lower(s[n])]

str_upper(s) == [n \in 1..Len(s) |-> ch_upper(s[n])]

\* str.title(): a cased character is upper-cased when the character before it
\* is not cased (or there is none), lower-cased otherwise.
str_title(s) ==
    [n \in 1..Len(s) |->
        IF n > 1 /\ IsCased(s[n - 1]) THEN ch_lower(s[n]) ELSE ch_upper(s[n])]

startswith(s, p) == Len(s) >= Len(p) /\ SubSeq(s, 1, Len(p)) = p

\* s[:n]
str_slice(s, n) == SubSeq(s, 1, IF Len(s) < n THEN Len(s) ELSE n)

\* sub in s
RECURSIVE str_contains(_, _)
str_contains(s, sub) ==
    IF Len(s) < Len(sub) THEN FALSE
    ELSE startswith(s, sub) \/ str_contains(Tail(s), sub)

\* s.replace(old, new), old not empty
RECURSIVE str_replace(_, _, _)
str_replace(s, old, new) ==
    IF Len(s) < Len(old) \/ s = <<>> THEN s
    ELSE IF startswith(s, old)
         THEN new \o str_replace(SubSeq(s, Len(old) + 1, Len(s)), old, new)
         ELSE <<Head(s)>> \o str_replace(Tail(s), old, new)

\* sep.join(parts)
RECURSIVE str_join(_, _)
str_join(sep, parts) ==
    IF parts = <<>> THEN <<>>
    ELSE IF Len(parts) = 1 THEN parts[1]
    ELSE parts[1] \o sep \o str_join(sep, Tail(parts))

----------------------------------------------------------------------------
(* Values.                                                                 *)

Bool(x) == [t |-> "bool", b |-> x, s |-> <<>>, m |-> <<>>]
Str(x) == [t |-> "str", b |-> FALSE, s |-> x, m |-> <<>>]
Num(x) == [t |-> "num", b |-> FALSE, s |-> x, m |-> <<>>]
Dict(x) == [t |-> "dict", b |-> FALSE, s |-> <<>>, m |-> x]
Null == [t |-> "null", b |-> FALSE, s |-> <<>>, m |-> <<>>]
NaN == [t |-> "nan", b |-> FALSE, s |-> <<>>, m |-> <<>>]

\* dict operations on a sequence of [k, v] pairs
DictHas(d, k) == \E n \in 1..Len(d) : d[n].k = k
DictGet(d, k) == d[CHOOSE n \in 1..Len(d) : d[n].k = k].v
DictSet(d, k, v) ==
    IF DictHas(d, k)
    THEN [n \in 1..Len(d) |-> IF d[n].k = k THEN [k |-> k, v |-> v] ELSE d[n]]
    ELSE Append(d, [k |-> k, v |-> v])
DictKeys(d) == [n \in 1..Len(d) |-> d[n].k]

\* str(x) / f"{x}" of a scalar value
py_str(x) ==
    IF x.t = "bool" THEN (IF x.b THEN <<"T","r","u","e">> ELSE <<"F","a","l","s","e">>)
    ELSE IF x.t = "null" THEN <<"N","o","n","e">>
    ELSE IF x.t = "nan" THEN <<"n","a","n">>
    ELSE x.s

----------------------------------------------------------------------------
(* The two normalizers.                                                    *)

s_true == <<"t","r","u","e">>
s_pass == <<"p","a","s","s">>
s_false == <<"f","a","l","s","e">>
s_fail == <<"f","a","i","l">>
s_Pass == <<"P","a","s","s">>
s_Fail == <<"F","a","i","l">>

\* faulty variant: the literal match keeps the caller's casing
nested_keeps_case(x) ==
    IF x.t = "bool" THEN (IF x.b THEN Str(s_Pass) ELSE Str(s_Fail))
    ELSE IF x.t = "str" /\ str_lower(x.s) = s_true THEN Str(s_Pass)
    ELSE IF x.t = "str" /\ str_lower(x.s) = s_false THEN Str(s_Fail)
    ELSE x

\* load_json_data.convert_bool_to_pass_fail, lines 34-41
nested_convert_bool_to_pass_fail(x) ==
    IF x.t = "bool" THEN (IF x.b THEN Str(s_Pass) ELSE Str(s_Fail))
    ELSE IF x.t = "str" /\ str_lower(x.s) \in {s_true, s_pass} THEN Str(s_Pass)
    ELSE IF x.t = "str" /\ str_lower(x.s) \in {s_false, s_fail} THEN Str(s_Fail)
    ELSE x

\* convert_bool_to_pass_fail, lines 74-86
convert_bool_to_pass_fail(x) ==
    IF x.t = "bool" THEN (IF x.b THEN Str(s_Pass) ELSE Str(s_Fail))
    ELSE IF x.t = "str" /\ str_lower(x.s) = s_true THEN Str(s_Pass)
    ELSE IF x.t = "str" /\ str_lower(x.s) = s_false THEN Str(s_Fail)
    ELSE IF x.t = "str" /\ str_lower(x.s) \in {s_pass, s_fail}
         THEN Str(str_title(x.s))
    ELSE x

----------------------------------------------------------------------------
(* Literals of the source.                                                 *)

s_eval_ == <<"e","v","a","l","_">>
s_decision_accuracy ==
    <<"d","e","c","i","s","i","o","n","_","a","c","c","u","r","a","c","y">>
s_grounded == <<"g","r","o","u","n","d","e","d">>
s_Eval_Status == <<"E","v","a","l","_","S","t","a","t","u","s">>
s_negation_pass == <<"n","e","g","a","t","i","o","n","_","p","a","s","s">>
s_reason == <<"r","e","a","s","o","n">>
s_which_one_executed ==
    <<"w","h","i","c","h","_","o","n","e","_","e","x","e","c","u","t","e","d">>
s_underscore == <<"_">>
s_space == <<" ">>
s_empty == <<>>
s_timestamp == <<"t","i","m","e","s","t","a","m","p">>
s_evaluations_run == <<"e","v","a","l","u","a","t","i","o","n","s","_","r","u","n">>
s_jid == <<"j","i","d">>
s_aid == <<"a","i","d">>
s_aligned == <<"a","l","i","g","n","e","d">>
s_gold_aligned == <<"g","o","l","d","_","a","l","i","g","n","e","d">>
s_title == <<"t","i","t","l","e">>
s_rationale == <<"r","a","t","i","o","n","a","l","e">>
s_source_file == <<"s","o","u","r","c","e","_","f","i","l","e">>
s_NA == <<"N","/","A">>
s_All == <<"A","l","l">>
s_sep == <<" ","-"," ">>
s_dots == <<".",".",".">>
s_comma == <<","," ">>

\* f'eval_{eval_type}', f'eval_{eval_type}_{key}'
eval_col(eval_type) == s_eval_ \o eval_type
eval_sub_col(eval_type, key) == s_eval_ \o eval_type \o s_underscore \o key

----------------------------------------------------------------------------
(* load_json_data.                                                         *)

\* An input record: the fields of metadata, input_data and the top level,
\* and in `missing` the keys the JSON object does not hold.
\* The keys lines 23-33 look up with [], in the order they are looked up.
RequiredKeys ==
    <<"timestamp", "evaluations_run", "jid", "aid", "aligned", "gold_aligned",
      "title", "source_file", "evaluation_results">>

HasKeyError(item) == \E n \in 1..Len(RequiredKeys) : RequiredKeys[n] \in item.missing

\* the key of the KeyError lines 23-33 raise on item
FirstMissing(item) ==
    RequiredKeys[CHOOSE n \in 1..Len(RequiredKeys) :
        /\ RequiredKeys[n] \in item.missing
        /\ \A k \in 1..(n - 1) : RequiredKeys[k] \notin item.missing]

\* faulty variant: jid is stored as read
BaseRecordRawJid(item) ==
    <<[k |-> s_timestamp, v |-> item.timestamp],
      [k |-> s_evaluations_run, v |-> Str(str_join(s_comma, item.evaluations_run))],
      [k |-> s_jid, v |-> Str(py_str(item.jid))],
      [k |-> s_aid, v |-> item.aid],
      [k |-> s_aligned, v |-> item.aligned],
      [k |-> s_gold_aligned, v |-> item.gold_aligned],
      [k |-> s_title, v |-> item.title],
      [k |-> s_rationale,
       v |-> IF "rationale" \in item.missing THEN Str(s_NA) ELSE item.rationale],
      [k |-> s_source_file, v |-> item.source_file]>>

\* lines 22-32: the base fields of the row
BaseRecord(item) ==
    <<[k |-> s_timestamp, v |-> item.timestamp],
      [k |-> s_evaluations_run, v |-> Str(str_join(s_comma, item.evaluations_run))],
      [k |-> s_jid, v |-> Str(str_upper(py_str(item.jid)))],
      [k |-> s_aid, v |-> item.aid],
      [k |-> s_aligned, v |-> item.aligned],
      [k |-> s_gold_aligned, v |-> item.gold_aligned],
      [k |-> s_title, v |-> item.title],
      [k |-> s_rationale,
       v |-> IF "rationale" \in item.missing THEN Str(s_NA) ELSE item.rationale],
      [k |-> s_source_file, v |-> item.source_file]>>

\* lines 53-56 and 59-62: the optional columns of the Eval_Status and
\* negation_pass shapes, which_one_executed before reason
WithExtras(rec, eval_type, result) ==
    LET r1 == IF DictHas(result.m, s_which_one_executed)
              THEN DictSet(rec, eval_sub_col(eval_type, s_which_one_executed),
                           DictGet(result.m, s_which_one_executed))
              ELSE rec
    IN  IF DictHas(result.m, s_reason)
        THEN DictSet(r1, eval_sub_col(eval_type, s_reason), DictGet(result.m, s_reason))
        ELSE r1

\* lines 64-65: one column per key of a dict with no recognised key
RECURSIVE ShapeOther(_, _, _)
ShapeOther(rec, eval_type, items) ==
    IF items = <<>> THEN rec
    ELSE ShapeOther(
            DictSet(rec, eval_sub_col(eval_type, Head(items).k),
                    nested_convert_bool_to_pass_fail(Head(items).v)),
            eval_type, Tail(items))

\* faulty variant: Eval_Status is probed before grounded
ShapeStatusFirst(rec, eval_type, result) ==
    IF eval_type = s_decision_accuracy
    THEN DictSet(rec, eval_col(eval_type), nested_convert_bool_to_pass_fail(result))
    ELSE IF result.t = "dict"
    THEN IF DictHas(result.m, s_Eval_Status)
         THEN WithExtras(
                DictSet(rec, eval_col(eval_type),
                        nested_convert_bool_to_pass_fail(DictGet(result.m, s_Eval_Status))),
                eval_type, result)
         ELSE IF DictHas(result.m, s_grounded)
         THEN LET r1 == DictSet(rec, eval_col(eval_type),
                            nested_convert_bool_to_pass_fail(DictGet(result.m, s_grounded)))
              IN  IF DictHas(result.m, s_reason)
                  THEN DictSet(r1, eval_sub_col(eval_type, s_reason),
                               DictGet(result.m, s_reason))
                  ELSE r1
         ELSE IF DictHas(result.m, s_negation_pass)
         THEN WithExtras(
                DictSet(rec, eval_col(eval_type),
                        nested_convert_bool_to_pass_fail(DictGet(result.m, s_negation_pass))),
                eval_type, result)
         ELSE ShapeOther(rec, eval_type, result.m)
    ELSE DictSet(rec, eval_col(eval_type), nested_convert_bool_to_pass_fail(result))

\* lines 44-67: the body of the loop over eval_results.items()
Shape(rec, eval_type, result) ==
    IF eval_type = s_decision_accuracy
    THEN DictSet(rec, eval_col(eval_type), nested_convert_bool_to_pass_fail(result))
    ELSE IF result.t = "dict"
    THEN IF DictHas(result.m, s_grounded)
         THEN LET r1 == DictSet(rec, eval_col(eval_type),
                            nested_convert_bool_to_pass_fail(DictGet(result.m, s_grounded)))
              IN  IF DictHas(result.m, s_reason)
                  THEN DictSet(r1, eval_sub_col(eval_type, s_reason),
                               DictGet(result.m, s_reason))
                  ELSE r1
         ELSE IF DictHas(result.m, s_Eval_Status)
         THEN WithExtras(
                DictSet(rec, eval_col(eval_type),
                        nested_convert_bool_to_pass_fail(DictGet(result.m, s_Eval_Status))),
                eval_type, result)
         ELSE IF DictHas(result.m, s_negation_pass)
         THEN WithExtras(
                DictSet(rec, eval_col(eval_type),
                        nested_convert_bool_to_pass_fail(DictGet(result.m, s_negation_pass))),
                eval_type, result)
         ELSE ShapeOther(rec, eval_type, result.m)
    ELSE DictSet(rec, eval_col(eval_type), nested_convert_bool_to_pass_fail(result))

NoError == [type |-> "none", arg |-> "none"]
KeyError(key) == [type |-> "KeyError", arg |-> key]
TypeError == [type |-> "TypeError", arg |-> "title"]

\* lines 10-20: pick the data and start with no records
LoadData ==
    /\ pc = "start"
    /\ data' = IF uploaded_file \/ default_exists THEN file_data ELSE <<>>
    /\ records' = <<>>
    /\ i' = 1
    /\ pc' = "for_item"
    /\ UNCHANGED <<input_vars, record, j, full, view_vars, norm_vars>>

\* faulty variant: a record that lacks a key is skipped and the load goes on
NextItemSkipsBad ==
    /\ pc = "for_item"
    /\ i <= Len(data)
    /\ IF HasKeyError(data[i])
       THEN /\ i' = i + 1
            /\ UNCHANGED <<pc, data, records, record, j>>
       ELSE /\ record' = BaseRecord(data[i])
            /\ j' = 1
            /\ pc' = "for_eval"
            /\ UNCHANGED <<data, records, i>>
    /\ UNCHANGED <<input_vars, full, view_vars, norm_vars>>

\* lines 21-33: the next item's base fields; a missing key raises out of
\* load_json_data and of the try block
NextItem ==
    /\ pc = "for_item"
    /\ i <= Len(data)
    /\ IF HasKeyError(data[i])
       THEN /\ error' = KeyError(FirstMissing(data[i]))
            /\ pc' = "except"
            /\ data' = <<>>
            /\ records' = <<>>
            /\ i' = 0
            /\ UNCHANGED <<record, j>>
       ELSE /\ record' = BaseRecord(data[i])
            /\ j' = 1
            /\ pc' = "for_eval"
            /\ UNCHANGED <<data, records, i, error>>
    /\ UNCHANGED <<input_vars, full, df, rendered, journal_filter,
                   alignment_filter, record_options, choice, selected_idx,
                   detail, display_columns, eval_columns, success_rates,
                   avg_success, norm_vars>>

\* lines 43-67: one entry of eval_results
ShapeEntry ==
    /\ pc = "for_eval"
    /\ j <= Len(data[i].evaluation_results)
    /\ record' = Shape(record, data[i].evaluation_results[j].k,
                       data[i].evaluation_results[j].v)
    /\ j' = j + 1
    /\ UNCHANGED <<input_vars, pc, data, records, i, full, view_vars, norm_vars>>

\* faulty variant: a record equal to one already held is not appended
AppendRecordDedup ==
    /\ pc = "for_eval"
    /\ j > Len(data[i].evaluation_results)
    /\ records' = IF \E n \in 1..Len(records) : records[n] = record
                  THEN records
                  ELSE Append(records, record)
    /\ i' = i + 1
    /\ record' = <<>>
    /\ j' = 0
    /\ pc' = "for_item"
    /\ UNCHANGED <<input_vars, data, full, view_vars, norm_vars>>

\* line 69
AppendRecord ==
    /\ pc = "for_eval"
    /\ j > Len(data[i].evaluation_results)
    /\ records' = Append(records, record)
    /\ i' = i + 1
    /\ record' = <<>>
    /\ j' = 0
    /\ pc' = "for_item"
    /\ UNCHANGED <<input_vars, data, full, view_vars, norm_vars>>

\* lines 71 and 99: the table is returned and bound to df
ReturnTable ==
    /\ pc = "for_item"
    /\ i > Len(data)
    /\ full' = records
    /\ df' = records
    /\ data' = <<>>
    /\ records' = <<>>
    /\ i' = 0
    /\ pc' = "check_empty"
    /\ UNCHANGED <<input_vars, record, j, rendered, journal_filter,
                   alignment_filter, record_options, choice, selected_idx,
                   detail, display_columns, eval_columns, success_rates,
                   avg_success, error, norm_vars>>

----------------------------------------------------------------------------
(* The table (pandas.DataFrame of a list of dicts) and the render pass.    *)
(* Positions are 1-based here: position k stands for Python's k - 1.       *)

TitleCut == 50       \* row['title'][:50], line 190

\* the columns of DataFrame(rows): every key, in order of first appearance
RECURSIVE Columns(_)
Columns(rows) ==
    IF rows = <<>> THEN <<>>
    ELSE LET before == Columns(SubSeq(rows, 1, Len(rows) - 1))
             keys == DictKeys(rows[Len(rows)])
             seen(c) == \E n \in 1..Len(before) : before[n] = c
         IN  before \o SelectSeq(keys, LAMBDA c : ~seen(c))

\* a cell of the table: a key the row's dict lacks is NaN
Cell(row, col) == IF DictHas(row, col) THEN DictGet(row, col) ELSE NaN

\* df[col].dtype == 'bool': every row of the table built holds a bool there
IsBoolColumn(table, col) ==
    \A n \in 1..Len(table) : Cell(table[n], col).t = "bool"

\* df[col].sum() of a bool column
RECURSIVE CountTrue(_, _)
CountTrue(rows, col) ==
    IF rows = <<>> THEN 0
    ELSE (IF Cell(Head(rows), col).b THEN 1 ELSE 0) + CountTrue(Tail(rows), col)

RECURSIVE SumNum(_)
SumNum(rates) == IF rates = <<>> THEN 0 ELSE Head(rates).num + SumNum(Tail(rates))

\* col.replace('eval_', '').replace('_', ' ').title(), lines 153, 238, 297
eval_name(col) ==
    str_title(str_replace(str_replace(col, s_eval_, s_empty), s_underscore, s_space))

\* line 153: the header of an overview column
display_name(col) == IF startswith(col, s_eval_) THEN eval_name(col) ELSE str_title(col)

\* faulty variant: the warning is shown and the pass goes on
CheckEmptyGoesOn ==
    /\ pc = "check_empty"
    /\ rendered' = IF df = <<>> THEN Append(rendered, "warning") ELSE rendered
    /\ pc' = "journal"
    /\ UNCHANGED <<input_vars, load_vars, df, journal_filter, alignment_filter,
                   record_options, choice, selected_idx, detail, display_columns,
                   eval_columns, success_rates, avg_success, error, norm_vars>>

\* lines 101-103: an empty table ends the pass with the warning; st.stop()
\* leaves the script by an exception `except Exception` does not catch
CheckEmpty ==
    /\ pc = "check_empty"
    /\ IF df = <<>>
       THEN /\ rendered' = Append(rendered, "warning")
            /\ pc' = "stopped"
       ELSE /\ pc' = "journal"
            /\ UNCHANGED rendered
    /\ UNCHANGED <<input_vars, load_vars, df, journal_filter, alignment_filter,
                   record_options, choice, selected_idx, detail, display_columns,
                   eval_columns, success_rates, avg_success, error, norm_vars>>

\* line 106: ["All"] + sorted(df["jid"].unique().tolist())
JournalOptions == {s_All} \cup {Cell(df[n], s_jid).s : n \in 1..Len(df)}

\* lines 111-114: the rows an Alignment Status choice keeps
KeepsAlignment(row, choice_made) ==
    \/ choice_made = "All"
    \/ choice_made = "Aligned" /\ Cell(row, s_aligned) = Bool(TRUE)
    \/ choice_made = "Not Aligned" /\ Cell(row, s_aligned) = Bool(FALSE)

\* lines 106-108
SelectJournal ==
    /\ pc = "journal"
    /\ \E opt \in JournalOptions :
        /\ journal_filter' = opt
        /\ df' = IF opt # s_All
                 THEN SelectSeq(df, LAMBDA row : Cell(row, s_jid) = Str(opt))
                 ELSE df
    /\ pc' = "alignment"
    /\ UNCHANGED <<input_vars, load_vars, rendered, alignment_filter,
                   record_options, choice, selected_idx, detail, display_columns,
                   eval_columns, success_rates, avg_success, error, norm_vars>>

\* lines 110-114
SelectAlignment ==
    /\ pc = "alignment"
    /\ \E opt \in {"All", "Aligned", "Not Aligned"} :
        /\ alignment_filter' = opt
        /\ df' = SelectSeq(df, LAMBDA row : KeepsAlignment(row, opt))
    /\ pc' = "overview"
    /\ UNCHANGED <<input_vars, load_vars, rendered, journal_filter,
                   record_options, choice, selected_idx, detail, display_columns,
                   eval_columns, success_rates, avg_success, error, norm_vars>>

\* lines 140-149: jid, aid and the eval_ columns that name neither 'reason'
\* nor 'which_one_executed'
DisplayColumns ==
    <<s_jid, s_aid>> \o
    SelectSeq(Columns(full),
              LAMBDA c : /\ startswith(c, s_eval_)
                         /\ ~str_contains(c, s_reason)
                         /\ ~str_contains(c, s_which_one_executed))

\* lines 118-184: the overview table is put on the page
RenderOverview ==
    /\ pc = "overview"
    /\ display_columns' = [n \in 1..Len(DisplayColumns) |-> display_name(DisplayColumns[n])]
    /\ rendered' = Append(rendered, "overview")
    /\ pc' = "selector"
    /\ UNCHANGED <<input_vars, load_vars, df, journal_filter, alignment_filter,
                   record_options, choice, selected_idx, detail, eval_columns,
                   success_rates, avg_success, error, norm_vars>>

\* line 190: f"{row['jid']} - {row['aid']} - {row['title'][:50]}..."
Label(row) ==
    py_str(Cell(row, s_jid)) \o s_sep \o py_str(Cell(row, s_aid)) \o s_sep
        \o str_slice(Cell(row, s_title).s, TitleCut) \o s_dots

\* lines 190-193: the labels of the displayed rows; slicing a title that is
\* not a str raises TypeError
BuildOptions ==
    /\ pc = "selector"
    /\ IF \E n \in 1..Len(df) : Cell(df[n], s_title).t # "str"
       THEN /\ error' = TypeError
            /\ pc' = "except"
            /\ UNCHANGED record_options
       ELSE /\ record_options' = [n \in 1..Len(df) |-> Label(df[n])]
            /\ pc' = IF Len(df) = 0 THEN "charts" ELSE "select"
            /\ UNCHANGED error
    /\ UNCHANGED <<input_vars, load_vars, df, rendered, journal_filter,
                   alignment_filter, choice, selected_idx, detail, display_columns,
                   eval_columns, success_rates, avg_success, norm_vars>>

\* line 195: list.index, the first position holding an equal label
IndexOf(options, label) ==
    CHOOSE n \in 1..Len(options) :
        /\ options[n] = label
        /\ \A k \in 1..(n - 1) : options[k] # label

\* lines 231-242: the rows of the detail panel's evaluation table
EvalData(row) ==
    LET eval_cols == SelectSeq(Columns(full),
                        LAMBDA c : /\ startswith(c, s_eval_)
                                   /\ ~str_contains(c, s_which_one_executed))
    IN  [n \in 1..Len(eval_cols) |->
            [Evaluation |-> eval_name(eval_cols[n]),
             Result |-> convert_bool_to_pass_fail(Cell(row, eval_cols[n]))]]

\* lines 194-258: the user picks the option at position k; the widget hands
\* back that option's label, and the panel shows df.iloc[selected_idx]
SelectRecord ==
    /\ pc = "select"
    /\ \E k \in 1..Len(record_options) :
        LET selected_record == record_options[k]
            idx == IndexOf(record_options, selected_record)
        IN  /\ choice' = k
            /\ selected_idx' = idx
            /\ detail' = [selected_row |-> df[idx], eval_data |-> EvalData(df[idx])]
    /\ rendered' = Append(rendered, "detail")
    /\ pc' = "charts"
    /\ UNCHANGED <<input_vars, load_vars, df, journal_filter, alignment_filter,
                   record_options, display_columns, eval_columns, success_rates,
                   avg_success, error, norm_vars>>

\* lines 261-288
RenderCharts ==
    /\ pc = "charts"
    /\ rendered' = Append(rendered, "charts")
    /\ pc' = "rates"
    /\ UNCHANGED <<input_vars, load_vars, df, journal_filter, alignment_filter,
                   record_options, choice, selected_idx, detail, display_columns,
                   eval_columns, success_rates, avg_success, error, norm_vars>>

\* line 292: the eval_ columns whose dtype is bool
EvalColumns ==
    SelectSeq(Columns(full),
              LAMBDA c : startswith(c, s_eval_) /\ IsBoolColumn(full, c))

\* line 298: (df[col].sum() / len(df)) * 100, kept as the fraction num / den
SuccessRate(col) == [num |-> 100 * CountTrue(df, col), den |-> Len(df)]

\* lines 291-314: the Evaluation Success Rates section
RenderRates ==
    /\ pc = "rates"
    /\ eval_columns' = EvalColumns
    /\ success_rates' =
          [n \in 1..Len(EvalColumns) |->
              [column |-> EvalColumns[n],
               Evaluation |-> eval_name(EvalColumns[n]),
               num |-> SuccessRate(EvalColumns[n]).num,
               den |-> SuccessRate(EvalColumns[n]).den]]
    /\ rendered' = IF EvalColumns # <<>> THEN Append(rendered, "rates") ELSE rendered
    /\ pc' = "summary"
    /\ UNCHANGED <<input_vars, load_vars, df, journal_filter, alignment_filter,
                   record_options, choice, selected_idx, detail, display_columns,
                   avg_success, error, norm_vars>>

NoAverage == [num |-> 0, den |-> 0, shown |-> FALSE]

\* lines 317-344: the summary; the average of the rates of eval_columns
RenderSummary ==
    /\ pc = "summary"
    /\ avg_success' =
          IF eval_columns # <<>>
          THEN [num |-> SumNum(success_rates),
                den |-> Len(df) * Len(eval_columns),
                shown |-> TRUE]
          ELSE NoAverage
    /\ rendered' = Append(rendered, "summary")
    /\ pc' = "done"
    /\ UNCHANGED <<input_vars, load_vars, df, journal_filter, alignment_filter,
                   record_options, choice, selected_idx, detail, display_columns,
                   eval_columns, success_rates, error, norm_vars>>

\* lines 346-348: the error banner
ExceptHandler ==
    /\ pc = "except"
    /\ rendered' = Append(rendered, "error")
    /\ pc' = "done"
    /\ UNCHANGED <<input_vars, load_vars, df, journal_filter, alignment_filter,
                   record_options, choice, selected_idx, detail, display_columns,
                   eval_columns, success_rates, avg_success, error, norm_vars>>

----------------------------------------------------------------------------
(* Inputs.                                                                 *)

Item(jid, aligned, title, ev, missing) ==
    [missing |-> missing,
     timestamp |-> Str(<<"2","0","2","5">>),
     evaluations_run |-> DictKeys(ev),
     jid |-> Str(jid),
     aid |-> Num(<<"7">>),
     aligned |-> Bool(aligned),
     gold_aligned |-> Bool(TRUE),
     title |-> title,
     rationale |-> Str(<<"o","k">>),
     source_file |-> Str(<<"f">>),
     evaluation_results |-> ev]

Entry(k, v) == [k |-> k, v |-> v]

ShortTitle == Str(<<"t">>)
\* two titles that agree on their first TitleCut characters only
LongTitle(last) == Str([n \in 1..(TitleCut + 1) |-> IF n <= TitleCut THEN "x" ELSE last])

EvA == <<Entry(s_decision_accuracy, Bool(TRUE))>>
EvB ==
    <<Entry(s_decision_accuracy, Bool(FALSE)),
      Entry(<<"g">>, Dict(<<Entry(s_grounded, Str(<<"p","a","s","s">>)),
                            Entry(s_reason, Bool(TRUE))>>))>>

\* well-formed records
GoodItems ==
    {Item(<<"a","b">>, al, ShortTitle, ev, {}) : al \in BOOLEAN, ev \in {EvA, EvB}}
    \cup {Item(<<"A","b">>, TRUE, ShortTitle, EvA, {}),
          Item(<<"A","b">>, FALSE, ShortTitle, EvB, {}),
          Item(<<"c">>, TRUE, ShortTitle, EvB, {}),
          Item(<<"c">>, FALSE, ShortTitle, EvA, {})}
    \cup {Item(<<"c">>, TRUE, LongTitle(last), EvA, {}) : last \in {"a", "b"}}
    \cup {Item(<<"a","b">>, TRUE, ShortTitle, EvB, {"rationale"})}

\* a record whose title is null
NullTitleItems == {Item(<<"a","b">>, TRUE, Null, EvA, {})}

\* records that lack one key
MissingKeyItems ==
    {Item(<<"a","b">>, TRUE, ShortTitle, EvA, {RequiredKeys[n]}) : n \in 1..Len(RequiredKeys)}

SeqsUpTo(S, n) == UNION {[1..k -> S] : k \in 0..n}

GeneralFiles == SeqsUpTo(GoodItems, MaxRecords)

FaultyFiles ==
    {f \in SeqsUpTo({Item(<<"c">>, FALSE, ShortTitle, EvA, {})}
                       \cup NullTitleItems \cup MissingKeyItems, MaxRecords) : f # <<>>}

\* results of every shape: scalars, and dicts over every subset of the keys
\* the shaping rules probe, each key with a value of its own
Kinds == {s_decision_accuracy, <<"a">>, <<"a","_","b">>}

ShapeKeys ==
    <<Entry(s_negation_pass, Str(<<"m","a","y","b","e">>)),
      Entry(s_reason, Bool(FALSE)),
      Entry(s_Eval_Status, Str(<<"f","a","i","l">>)),
      Entry(s_which_one_executed, Str(<<"w">>)),
      Entry(s_grounded, Bool(TRUE)),
      Entry(<<"b">>, Str(<<"T","R","U","E">>))>>

ScalarResults ==
    {Bool(TRUE), Bool(FALSE), Str(<<"P","A","S","S">>), Str(<<"m","a","y","b","e">>),
     Num(<<"0",".","5">>), Null}

DictResults ==
    {Dict(SelectSeq(ShapeKeys, LAMBDA e : e.k \in keep)) :
        keep \in SUBSET {ShapeKeys[n].k : n \in 1..Len(ShapeKeys)}}

LaterResults == {Bool(FALSE), Dict(<<Entry(<<"b">>, Bool(TRUE))>>)}

DistinctKinds(ev) == \A m, n \in 1..Len(ev) : m # n => ev[m].k # ev[n].k

\* evaluation_results of one to MaxEntries entries with distinct kinds: the
\* first of any shape, the later ones of a few
ShapeEvals ==
    {ev \in {<<first>> \o rest :
                first \in {Entry(k, v) : k \in Kinds, v \in ScalarResults \cup DictResults},
                rest \in SeqsUpTo({Entry(k, v) : k \in Kinds, v \in LaterResults},
                                  MaxEntries - 1)} :
        DistinctKinds(ev)}

ShapeFiles == {<<Item(<<"c">>, TRUE, ShortTitle, ev, {})>> : ev \in ShapeEvals}

Unset == [t |-> "unset", b |-> FALSE, s |-> <<>>, m |-> <<>>]

InitRest ==
    /\ pc = "start"
    /\ data = <<>> /\ records = <<>> /\ i = 0 /\ record = <<>> /\ j = 0
    /\ full = <<>> /\ df = <<>> /\ rendered = <<>>
    /\ journal_filter = <<>> /\ alignment_filter = "" /\ record_options = <<>>
    /\ choice = 0 /\ selected_idx = 0
    /\ detail = [selected_row |-> <<>>, eval_data |-> <<>>]
    /\ display_columns = <<>> /\ eval_columns = <<>> /\ success_rates = <<>>
    /\ avg_success = NoAverage /\ error = NoError
    /\ value = Unset /\ nested_out = Unset /\ module_out = Unset

\* the state of a pass about to run: a file uploaded, the default file on
\* disk, or neither
Init ==
    /\ \/ /\ uploaded_file = FALSE /\ default_exists = FALSE /\ file_data = <<>>
       \/ /\ uploaded_file = TRUE /\ default_exists = FALSE
          /\ file_data \in GeneralFiles
       \/ /\ uploaded_file = TRUE /\ default_exists = TRUE
          /\ file_data \in FaultyFiles
       \/ /\ uploaded_file = FALSE /\ default_exists = TRUE
          /\ file_data \in ShapeFiles
    /\ InitRest

Next ==
    \/ LoadData
    \/ NextItem
    \/ ShapeEntry
    \/ AppendRecord
    \/ ReturnTable
    \/ CheckEmpty
    \/ SelectJournal
    \/ SelectAlignment
    \/ RenderOverview
    \/ BuildOptions
    \/ SelectRecord
    \/ RenderCharts
    \/ RenderRates
    \/ RenderSummary
    \/ ExceptHandler

Spec == Init /\ [][Next]_vars

----------------------------------------------------------------------------
(* The normalizers as functions of their argument.                         *)

NormWords == {s_true, s_pass, s_false, s_fail}

\* every casing of word w
Casings(w) ==
    {[n \in 1..Len(w) |-> IF n \in up THEN ch_upper(w[n]) ELSE w[n]] :
        up \in SUBSET (1..Len(w))}

NormStrings ==
    LET cased == UNION {Casings(w) : w \in NormWords}
        extras == {e \in SeqsUpTo({"d", " "}, MaxExtra) : e # <<>>}
    IN  cased
        \cup {c \o e : c \in cased, e \in extras}
        \cup {<<>>, <<"m","a","y","b","e">>, <<"P","a","s","s"," ","f","a","i","l">>}

NormValues ==
    {Str(x) : x \in NormStrings}
    \cup {Bool(TRUE), Bool(FALSE), Num(<<"1">>), Num(<<"0",".","5">>), Null, NaN,
          Dict(<<>>), Dict(<<Entry(s_grounded, Bool(TRUE))>>)}

InitNorm ==
    /\ uploaded_file = FALSE /\ default_exists = FALSE /\ file_data = <<>>
    /\ pc = "normalize"
    /\ data = <<>> /\ records = <<>> /\ i = 0 /\ record = <<>> /\ j = 0
    /\ full = <<>> /\ df = <<>> /\ rendered = <<>>
    /\ journal_filter = <<>> /\ alignment_filter = "" /\ record_options = <<>>
    /\ choice = 0 /\ selected_idx = 0
    /\ detail = [selected_row |-> <<>>, eval_data |-> <<>>]
    /\ display_columns = <<>> /\ eval_columns = <<>> /\ success_rates = <<>>
    /\ avg_success = NoAverage /\ error = NoError
    /\ value \in NormValues /\ nested_out = Unset /\ module_out = Unset

\* lines 45-67: the flattener's call
CallNested ==
    /\ pc = "normalize"
    /\ nested_out = Unset
    /\ nested_out' = nested_convert_bool_to_pass_fail(value)
    /\ UNCHANGED <<input_vars, pc, load_vars, view_vars, value, module_out>>

\* line 241: the detail panel's call
CallModule ==
    /\ pc = "normalize"
    /\ module_out = Unset
    /\ module_out' = convert_bool_to_pass_fail(value)
    /\ UNCHANGED <<input_vars, pc, load_vars, view_vars, value, nested_out>>

NextNorm == CallNested \/ CallModule

SpecNorm == InitNorm /\ [][NextNorm]_vars

----------------------------------------------------------------------------
(* Vocabulary of the properties.                                           *)

\* the data load_json_data iterates over
InputData == IF uploaded_file \/ default_exists THEN file_data ELSE <<>>

Loading == pc \in {"start", "for_item", "for_eval"}

EqIgnoreCase(a, b) ==
    /\ Len(a) = Len(b)
    /\ \A n \in 1..Len(a) : a[n] = b[n] \/ ch_upper(a[n]) = b[n] \/ a[n] = ch_upper(b[n])

\* the normalizer as the specification words it
Normalized(x) ==
    CASE x.t = "bool" /\ x.b -> Str(s_Pass)
      [] x.t = "bool" /\ ~x.b -> Str(s_Fail)
      [] x.t = "str" /\ (EqIgnoreCase(x.s, s_true) \/ EqIgnoreCase(x.s, s_pass)) -> Str(s_Pass)
      [] x.t = "str" /\ (EqIgnoreCase(x.s, s_false) \/ EqIgnoreCase(x.s, s_fail)) -> Str(s_Fail)
      [] OTHER -> x

\* the positions of seq, in order, that satisfy Keep
Positions(seq, Keep(_)) == SelectSeq([n \in 1..Len(seq) |-> n], Keep)

----------------------------------------------------------------------------
(* C1: for an input whose records all hold the required keys, the table    *)
(* load_json_data returns has one row per input record, and row n is the   *)
(* row of input record n: same order, nothing dropped, duplicated or       *)
(* merged, also when two records are identical.                            *)

RowOf(row, item) ==
    /\ Cell(row, s_timestamp) = item.timestamp
    /\ EqIgnoreCase(Cell(row, s_jid).s, item.jid.s)
    /\ Cell(row, s_aid) = item.aid
    /\ Cell(row, s_aligned) = item.aligned
    /\ Cell(row, s_gold_aligned) = item.gold_aligned
    /\ Cell(row, s_title) = item.title
    /\ Cell(row, s_source_file) = item.source_file

\* C1: once a well-formed input is loaded, the table has one row per input
\* record and row n is the row of record n.
C1_OneRowPerRecord ==
    ((\A n \in 1..Len(InputData) : ~HasKeyError(InputData[n])) /\ ~Loading
        /\ pc # "normalize")
    => /\ Len(full) = Len(InputData)
       /\ \A n \in 1..Len(full) : RowOf(full[n], InputData[n])

C1_Witness ==
    /\ pc = "check_empty"
    /\ Len(full) = 2
    /\ InputData[1] = InputData[2]
    /\ full[1] = full[2]

----------------------------------------------------------------------------
(* C2: the flattener's normalizer maps true and the strings equal,         *)
(* ignoring case, to "true" or "pass" to exactly "Pass"; false and the     *)
(* strings equal, ignoring case, to "false" or "fail" to exactly "Fail";   *)
(* everything else to itself.  The module-level normalizer returns the     *)
(* same result for every input.                                            *)

C2_Normalizers ==
    /\ nested_out # Unset => nested_out = Normalized(value)
    /\ (nested_out # Unset /\ module_out # Unset) => module_out = nested_out

C2_Witness ==
    /\ value = Str(<<"p","A","s","S">>)
    /\ nested_out = Str(s_Pass)
    /\ module_out = Str(s_Pass)

----------------------------------------------------------------------------
(* C3: each (kind, result) entry of evaluation_results applies exactly one *)
(* shaping rule, the first that matches of: (1) kind decision_accuracy;    *)
(* (2) a mapping with grounded; (3) a mapping with Eval_Status; (4) a      *)
(* mapping with negation_pass; (5) any other mapping; (6) a scalar.  The   *)
(* columns the entry writes are exactly those of that rule, with the       *)
(* values it names, and every other column of the row is left as it was.   *)

IsDict(x) == x.t = "dict"
Has(result, key) == IsDict(result) /\ DictHas(result.m, key)

Rule1(kind, result) == kind = s_decision_accuracy
Rule2(kind, result) == kind # s_decision_accuracy /\ Has(result, s_grounded)
Rule3(kind, result) ==
    kind # s_decision_accuracy /\ ~Has(result, s_grounded) /\ Has(result, s_Eval_Status)
Rule4(kind, result) ==
    /\ kind # s_decision_accuracy
    /\ ~Has(result, s_grounded) /\ ~Has(result, s_Eval_Status)
    /\ Has(result, s_negation_pass)
Rule5(kind, result) ==
    /\ kind # s_decision_accuracy /\ IsDict(result)
    /\ ~Has(result, s_grounded) /\ ~Has(result, s_Eval_Status)
    /\ ~Has(result, s_negation_pass)
Rule6(kind, result) == kind # s_decision_accuracy /\ ~IsDict(result)

ReasonColumn(kind, result) ==
    IF Has(result, s_reason)
    THEN {<<s_eval_ \o kind \o <<"_">> \o s_reason, DictGet(result.m, s_reason)>>}
    ELSE {}

WhichColumn(kind, result) ==
    IF Has(result, s_which_one_executed)
    THEN {<<s_eval_ \o kind \o <<"_">> \o s_which_one_executed,
            DictGet(result.m, s_which_one_executed)>>}
    ELSE {}

\* the <<column, value>> pairs the rules give the entry
RuleColumns(kind, result) ==
    CASE Rule1(kind, result) -> {<<s_eval_ \o kind, Normalized(result)>>}
      [] Rule2(kind, result) ->
            {<<s_eval_ \o kind, Normalized(DictGet(result.m, s_grounded))>>}
            \cup ReasonColumn(kind, result)
      [] Rule3(kind, result) ->
            {<<s_eval_ \o kind, Normalized(DictGet(result.m, s_Eval_Status))>>}
            \cup WhichColumn(kind, result) \cup ReasonColumn(kind, result)
      [] Rule4(kind, result) ->
            {<<s_eval_ \o kind, Normalized(DictGet(result.m, s_negation_pass))>>}
            \cup WhichColumn(kind, result) \cup ReasonColumn(kind, result)
      [] Rule5(kind, result) ->
            {<<s_eval_ \o kind \o <<"_">> \o result.m[n].k, Normalized(result.m[n].v)>> :
                n \in 1..Len(result.m)}
      [] Rule6(kind, result) -> {<<s_eval_ \o kind, Normalized(result)>>}

\* new is old with exactly the columns of `columns` written
WritesExactly(old, new, columns) ==
    /\ \A c \in columns : DictHas(new, c[1]) /\ DictGet(new, c[1]) = c[2]
    /\ \A n \in 1..Len(new) :
          (\A c \in columns : c[1] # new[n].k)
          => DictHas(old, new[n].k) /\ DictGet(old, new[n].k) = new[n].v
    /\ \A n \in 1..Len(old) : DictHas(new, old[n].k)

\* C3: every step of the loop over eval_results writes exactly the columns
\* of the first matching rule.
C3_ShapingRules ==
    [][(pc = "for_eval" /\ j' = j + 1)
        => WritesExactly(record, record',
                         RuleColumns(data[i].evaluation_results[j].k,
                                     data[i].evaluation_results[j].v))]_vars

\* an entry holding all three recognised keys has been shaped: the value is
\* the one of grounded
C3_Witness ==
    /\ pc = "for_eval"
    /\ j = 2
    /\ data[i].evaluation_results[1].k = <<"a">>
    /\ Has(data[i].evaluation_results[1].v, s_grounded)
    /\ Has(data[i].evaluation_results[1].v, s_Eval_Status)
    /\ Has(data[i].evaluation_results[1].v, s_negation_pass)
    /\ Has(data[i].evaluation_results[1].v, s_which_one_executed)
    /\ Cell(record, s_eval_ \o <<"a">>) = Str(s_Pass)
    /\ ~DictHas(record, s_eval_ \o <<"a">> \o <<"_">> \o s_which_one_executed)

----------------------------------------------------------------------------
(* C4: every entry of a record's evaluation_results contributes to the row *)
(* at least one column whose name starts with eval_<kind>, whatever the    *)
(* shape of the result, the empty mapping included.                        *)

C4_EveryEntryHasColumn ==
    pc = "for_eval"
    => \A n \in 1..(j - 1) :
          \E c \in 1..Len(record) :
              startswith(record[c].k, s_eval_ \o data[i].evaluation_results[n].k)

----------------------------------------------------------------------------
(* C5: if any record of the input lacks a required key, load_json_data     *)
(* raises and returns no table: no row is shown for any record, the        *)
(* well-formed ones before the bad one included, and the pass ends with    *)
(* the error banner alone.  A record that lacks only rationale loads, and  *)
(* its row has rationale "N/A".                                            *)

ClaimRequiredKeys ==
    {"timestamp", "jid", "aid", "aligned", "gold_aligned", "title",
     "evaluation_results", "source_file"}

LacksRequired(item) == item.missing \cap ClaimRequiredKeys # {}

\* C5: a record lacking a required key leaves no table and only the error
\* banner; a record lacking only rationale gets rationale "N/A".
C5_MissingKeyFailsWholeLoad ==
    /\ ((\E n \in 1..Len(InputData) : LacksRequired(InputData[n])) /\ ~Loading
          /\ pc # "normalize")
       => /\ pc \in {"except", "done"}
          /\ error.type = "KeyError"
          /\ full = <<>> /\ df = <<>>
          /\ pc = "except" => rendered = <<>>
          /\ pc = "done" => rendered = <<"error">>
    /\ (pc = "check_empty")
       => \A n \in 1..Len(InputData) :
             InputData[n].missing = {"rationale"}
             => Cell(full[n], s_rationale) = Str(s_NA)

\* a well-formed record came before the one that lacks a key
C5_Witness ==
    /\ pc = "done"
    /\ Len(InputData) = 2
    /\ InputData[1].missing = {}
    /\ InputData[1].title # Null
    /\ LacksRequired(InputData[2])
    /\ rendered = <<"error">>
    /\ full = <<>>

----------------------------------------------------------------------------
(* C6: with no uploaded file and no default file, or with an empty list as *)
(* input, the load returns a zero-row table without raising, and the pass  *)
(* shows the warning and stops: nothing else is rendered and the error     *)
(* banner is not shown.                                                    *)

C6_EmptyLoadWarnsAndStops ==
    (InputData = <<>> /\ pc # "normalize")
    => /\ pc \in {"start", "for_item", "check_empty", "stopped"}
       /\ error = NoError
       /\ full = <<>>
       /\ pc # "stopped" => rendered = <<>>
       /\ pc = "stopped" => rendered = <<"warning">>

C6_Witness ==
    /\ ~uploaded_file /\ ~default_exists
    /\ pc = "stopped"
    /\ rendered = <<"warning">>

----------------------------------------------------------------------------
(* C7: in every pass, when the error banner is shown no table, detail      *)
(* panel or chart has been shown before it.                                *)

C7_NoViewBeforeErrorBanner ==
    \A n \in 1..Len(rendered) :
        rendered[n] = "error"
        => \A m \in 1..(n - 1) : rendered[m] \notin {"overview", "detail", "charts"}

----------------------------------------------------------------------------
(* C8: for a loaded non-empty table, every primary outcome column          *)
(* eval_<kind> produced from boolean results is in the Evaluation Success  *)
(* Rates section with the rate 100 * passing displayed rows / displayed    *)
(* rows, and the Average Success Rate is the mean of those rates.          *)

\* the value rules 1 to 4 and 6 take the outcome of an entry from
Outcome(kind, result) ==
    CASE Rule1(kind, result) -> result
      [] Rule2(kind, result) -> DictGet(result.m, s_grounded)
      [] Rule3(kind, result) -> DictGet(result.m, s_Eval_Status)
      [] Rule4(kind, result) -> DictGet(result.m, s_negation_pass)
      [] Rule5(kind, result) -> NaN
      [] Rule6(kind, result) -> result

\* the kinds every input record holds with a boolean outcome
BooleanKinds ==
    {kind \in {InputData[1].evaluation_results[e].k :
                  e \in 1..Len(InputData[1].evaluation_results)} :
        \A n \in 1..Len(InputData) :
            \E e \in 1..Len(InputData[n].evaluation_results) :
                /\ InputData[n].evaluation_results[e].k = kind
                /\ Outcome(kind, InputData[n].evaluation_results[e].v).t = "bool"}

Passing(col) == Len(SelectSeq(df, LAMBDA row : Cell(row, col) = Str(s_Pass)))

\* C8: at the end of a pass that displays rows, every boolean outcome column
\* has its rate in success_rates and the average is shown.
C8_RatesCoverBooleanOutcomes ==
    (pc = "done" /\ error = NoError /\ full # <<>> /\ df # <<>>)
    => /\ \A kind \in BooleanKinds :
             \E n \in 1..Len(success_rates) :
                 /\ success_rates[n].column = s_eval_ \o kind
                 /\ success_rates[n].num = 100 * Passing(s_eval_ \o kind)
                 /\ success_rates[n].den = Len(df)
       /\ BooleanKinds # {} => avg_success.shown

----------------------------------------------------------------------------
(* C9: the jid of every row is the upper-cased input jid, so records whose *)
(* jid differ only in case are one option of the Journal ID filter; with   *)
(* option J and Alignment Status a chosen, the displayed rows are exactly  *)
(* the loaded rows whose input jid equals J ignoring case and whose        *)
(* aligned flag matches a, in input order and unchanged.                   *)

AlignedMatches(item, a) ==
    \/ a = "All"
    \/ a = "Aligned" /\ item.aligned = Bool(TRUE)
    \/ a = "Not Aligned" /\ item.aligned = Bool(FALSE)

JidMatches(item, option) == option = s_All \/ EqIgnoreCase(item.jid.s, option)

Selected ==
    Positions(InputData,
              LAMBDA n : /\ JidMatches(InputData[n], journal_filter)
                         /\ AlignedMatches(InputData[n], alignment_filter))

\* C9: jid is upper-cased, the options hold one entry per jid ignoring case,
\* and the filters keep exactly the matching rows, in order and unchanged.
C9_JidUpperAndFilters ==
    /\ \A n \in 1..Len(full) :
          /\ EqIgnoreCase(Cell(full[n], s_jid).s, InputData[n].jid.s)
          /\ \A c \in 1..Len(Cell(full[n], s_jid).s) : ~IsLower(Cell(full[n], s_jid).s[c])
    /\ pc = "journal"
       => /\ \A o1, o2 \in JournalOptions : EqIgnoreCase(o1, o2) => o1 = o2
          /\ \A n \in 1..Len(InputData) :
                \E o \in JournalOptions : EqIgnoreCase(o, InputData[n].jid.s)
    /\ pc \in {"overview", "selector", "select", "charts", "rates", "summary"}
       => df = [n \in 1..Len(Selected) |-> full[Selected[n]]]

\* two records whose jid differ in case only are both kept by one option
C9_Witness ==
    /\ pc = "overview"
    /\ Len(InputData) = 2
    /\ InputData[1].jid = Str(<<"a","b">>)
    /\ InputData[2].jid = Str(<<"A","b">>)
    /\ journal_filter = <<"A","B">>
    /\ alignment_filter = "Aligned"
    /\ InputData[1].aligned = Bool(FALSE)
    /\ df = <<full[2]>>

----------------------------------------------------------------------------
(* C10: choosing the k-th option of the record selector makes the detail   *)
(* panel show the k-th displayed row, also when displayed rows share a     *)
(* label.                                                                  *)

C10_DetailShowsChosenRow ==
    (pc \in {"charts", "rates", "summary", "done"} /\ choice # 0)
    => detail.selected_row = df[choice]

====
